---- MODULE Spec2Model ----
(***************************************************************************)
(* The long-range-radio link layer of the T-Deck firmware.                 *)
(*                                                                         *)
(* Two implementations drive the one global radio object (LoRa):           *)
(*   - LoRaModule  (src/src/hal/lora.cpp): 5-byte header, 8-bit addresses, *)
(*     blocking ACK wait;                                                  *)
(*   - LoRaManager (src/src/comms/lora.cpp): 8-byte header, 16-bit ids,    *)
(*     persisted configuration.                                            *)
(* Both define struct LoRaPacket, so a build uses one or the other: the    *)
(* variable owner records which one owns the radio in a behaviour.         *)
(*                                                                         *)
(* The radio library (LoRa.parsePacket / read / available / write /        *)
(* endPacket) is the environment: each received frame is reported to       *)
(* exactly one parsePacket call, which makes it the current frame that     *)
(* read and available work on.                                             *)
(***************************************************************************)
EXTENDS Integers, Sequences, FiniteSets, TLC

(***************************************************************************)
(* Program constants.                                                      *)
(***************************************************************************)
PayloadMax == 240
HeaderLen == 5
BroadcastAddr == 255
LORA_FLAG_ACK == 1
LORA_FLAG_RELIABLE == 2
DefaultTimeout == 1000
DefaultAddress == 1
AckRecvTimeout == 100
AckSendTimeout == 100
PollDelay == 10
SafetyMargin == 50
TDECK_LORA_FREQUENCY == 915000000
TDECK_LORA_BANDWIDTH == 125000
TDECK_LORA_SPREADING_FACTOR == 7
TDECK_LORA_CODING_RATE == 5
TDECK_LORA_SYNC_WORD == 18
DefaultTxPower == 17
MaxInt32 == 2147483647
LORA_MAX_PACKET_SIZE == 256
MinHeader == 8
MgrBroadcast == 65535
LORA_MSG_TEXT == 0
LORA_MSG_ACK == 4

(***************************************************************************)
(* Bounds of the model.                                                    *)
(***************************************************************************)
MaxCalls == 2
MaxQueue == 2
MaxWaitMs == 40

ClockZero == -MaxInt32 - 1
Nodes == {1, 2}
\* The states a node starts in: as constructed, or running (begun, with the
\* address ConfiguredAddr, the timeout ConfiguredTimeout, and StartId packets
\* sent since: node 1 is about to wrap its id counter, node 2 is not).
ConfiguredAddr(n) == n
ConfiguredTimeout == 40
StartId(n) == IF n = 1 THEN 255 ELSE 254
\* the clock starts 15 ms before millis() wraps
StartTime == MaxInt32 - 14
ShortTimeout == 20
LongTimeout == 30000
\* the calls of sendPacket made: <<destination, id, flags, length, timeout>>
SendInputs ==
    { <<2, 0, LORA_FLAG_RELIABLE, 1, ShortTimeout>>,
      <<2, 5, LORA_FLAG_RELIABLE, 0, 0>>,
      <<BroadcastAddr, 0, LORA_FLAG_RELIABLE, 0, ShortTimeout>>,
      <<3, 5, LORA_FLAG_RELIABLE, PayloadMax, ShortTimeout>>,
      <<2, 5, 0, PayloadMax, ShortTimeout>>,
      <<2, 0, 0, PayloadMax + 1, LongTimeout>>,
      <<BroadcastAddr, 5, 0, 2, 0>>,
      <<2, 5, LORA_FLAG_ACK, 0, ShortTimeout>> }
\* the nodes whose application sends; the application of the others listens
Senders == {1}
RecvTimeouts == {0, ShortTimeout}
SetTimeouts == {ConfiguredTimeout}
Seed == 16
\* the manager's device: the node whose radio it drives, the id its MAC
\* address gives it, the id of a peer, the signal the radio measures
MgrNode == 1
DeviceId == 258
PeerId == 9
Rssi == -70
Snr == 9
\* the band of the radio
BandLow == 137000000
BandHigh == 1020000000
\* the calls of configure made:
\* <<frequency, bandwidth, spreadingFactor, codingRate, syncWord>>
ConfigInputs ==
    { <<868000000, 250000, 9, 6, 52>>,
      <<TDECK_LORA_FREQUENCY, TDECK_LORA_BANDWIDTH, 13, TDECK_LORA_CODING_RATE, 52>>,
      <<868000000, TDECK_LORA_BANDWIDTH, TDECK_LORA_SPREADING_FACTOR, 9,
        TDECK_LORA_SYNC_WORD>>,
      <<TDECK_LORA_FREQUENCY, 100000, TDECK_LORA_SPREADING_FACTOR,
        TDECK_LORA_CODING_RATE, TDECK_LORA_SYNC_WORD>>,
      <<5, 250000, TDECK_LORA_SPREADING_FACTOR, TDECK_LORA_CODING_RATE,
        TDECK_LORA_SYNC_WORD>>,
      <<TDECK_LORA_FREQUENCY, TDECK_LORA_BANDWIDTH, TDECK_LORA_SPREADING_FACTOR,
        TDECK_LORA_CODING_RATE, TDECK_LORA_SYNC_WORD>> }
TextLengths == {2, 256}
GarbageBytes == {0, 238}

VARIABLES owner, now, calls, hal, radio, stack, last,
          mgr, lora, store, order, out, task

\* the variables of the LoRaManager build
mvars == <<mgr, lora, store, order, out, task>>

vars == <<owner, now, calls, hal, radio, stack, last, mvars>>

(***************************************************************************)
(* Integer helpers: the widths the code computes in.                       *)
(***************************************************************************)
U8(x) == x % 256
Min(a, b) == IF a < b THEN a ELSE b
HasFlag(flags, bit) == (flags \div bit) % 2 = 1
Pow2(k) == IF k = 0 THEN 1 ELSE 2 ^ k

\* millis() is an unsigned 32-bit counter.  The integers of TLC are signed
\* 32-bit ones, so a clock value c stands for millis() = c + 2^31: ClockZero
\* is millis() = 0 and MaxInt32 is millis() = 2^32 - 1, after which it wraps.
\* millis() + ms, modulo 2^32
ClockAdd(t, ms) ==
    IF t > MaxInt32 - ms THEN ClockZero + (ms - (MaxInt32 - t) - 1) ELSE t + ms

\* millis() - startTime, modulo 2^32 (for differences below 2^31)
Elapsed(t, start) ==
    IF t >= start THEN t - start ELSE (t - ClockZero) + (MaxInt32 - start) + 1

(***************************************************************************)
(* Packets (struct LoRaPacket of the hardware layer).  payload holds the   *)
(* bytes of the 240-byte array that the model tracks: the ones the caller  *)
(* set, or the ones receivePacket wrote.                                   *)
(***************************************************************************)
NoPkt == [destination |-> -1, source |-> -1, id |-> -1, flags |-> 0,
          length |-> 0, payload |-> <<>>]

CallerPacket(dest, id, flags, len, seed) ==
    [destination |-> dest, source |-> 0, id |-> id, flags |-> flags,
     length |-> len,
     payload |-> [i \in 1..Min(len, PayloadMax) |-> U8(seed + i)]]

(***************************************************************************)
(* The radio library as the code uses it.  rxq: frames the radio received  *)
(* and has not reported yet; buf, idx: the frame the last successful       *)
(* parsePacket reported and the read position in it; sent: the packet the  *)
(* frame was encoded from (history, NoPkt for a foreign frame).            *)
(***************************************************************************)
RadioInit == [rxq |-> <<>>, buf |-> <<>>, idx |-> 0, sent |-> NoPkt]

\* LoRa.parsePacket(): reports the next received frame, once
parsePacket(r) ==
    IF r.rxq = <<>>
    THEN [radio |-> r, size |-> 0]
    ELSE [radio |-> [rxq |-> Tail(r.rxq), buf |-> Head(r.rxq).bytes, idx |-> 0,
                     sent |-> Head(r.rxq).sent],
          size |-> Len(Head(r.rxq).bytes)]

\* LoRa.available()
available(r) == Len(r.buf) - r.idx

\* the value of the k-th of k successive LoRa.read() calls: -1 past the end
ReadSeq(r, k) == IF r.idx + k <= Len(r.buf) THEN r.buf[r.idx + k] ELSE -1

\* the radio receiving a frame from the air (dropped when the queue is full)
Receive(r, bytes, sent) ==
    IF Len(r.rxq) < MaxQueue
    THEN [r EXCEPT !.rxq = Append(@, [bytes |-> bytes, sent |-> sent])]
    ELSE r

(***************************************************************************)
(* LoRaModule: the fields of the object, one record per node.  live is     *)
(* what the object last wrote to its radio: the settings (LoRa.set...) and *)
(* the operating mode (LoRa.idle, sleep, receive).                         *)
(***************************************************************************)
\* the radio before LoRa.begin: the settings of the chip after its reset
LiveReset ==
    [frequency |-> 0, bandwidth |-> TDECK_LORA_BANDWIDTH,
     spreadingFactor |-> TDECK_LORA_SPREADING_FACTOR,
     codingRate |-> TDECK_LORA_CODING_RATE, syncWord |-> TDECK_LORA_SYNC_WORD,
     txPower |-> DefaultTxPower, op |-> "idle"]

HalConstructed ==
    [available |-> FALSE, frequency |-> TDECK_LORA_FREQUENCY,
     bandwidth |-> TDECK_LORA_BANDWIDTH,
     spreadingFactor |-> TDECK_LORA_SPREADING_FACTOR,
     codingRate |-> TDECK_LORA_CODING_RATE, syncWord |-> TDECK_LORA_SYNC_WORD,
     txPower |-> DefaultTxPower, mode |-> "STANDBY",
     nodeAddress |-> DefaultAddress, timeout |-> DefaultTimeout, packetId |-> 0,
     live |-> LiveReset]

\* initLoRa, lines 505-514: what a successful initLoRa writes to the radio
initLoRa(h) ==
    [h EXCEPT !.live = [frequency |-> h.frequency, bandwidth |-> h.bandwidth,
                        spreadingFactor |-> h.spreadingFactor,
                        codingRate |-> h.codingRate, syncWord |-> h.syncWord,
                        txPower |-> h.txPower, op |-> "idle"]]

\* setMode, lines 214-234: the library call of each mode
ModeOp(m) ==
    CASE m = "STANDBY" -> "idle"
      [] m = "SLEEP" -> "sleep"
      [] m = "TRANSMIT" -> "idle"
      [] m = "RECEIVE" -> "receive"

\* a setMode that takes CAD for a mode
setModeAnyMode(h, m) ==
    IF ~h.available THEN h ELSE [h EXCEPT !.mode = m]

\* a setMode that does not ask whether the radio is available
setModeWhenClosed(h, m) ==
    IF m = "CAD" THEN h ELSE [h EXCEPT !.mode = m, !.live.op = ModeOp(m)]

\* setMode, lines 202-245: the object after the call
setMode(h, m) ==
    IF ~h.available \/ m = "CAD" THEN h
    ELSE [h EXCEPT !.mode = m, !.live.op = ModeOp(m)]

\* setMode, lines 202-245: the result of the call
setModeResult(h, m) == h.available /\ m # "CAD"

\* setBandwidth, lines 115-118: the bandwidths the setter takes, in Hz
LegalBandwidths ==
    {7800, 10400, 15600, 20800, 31250, 41700, 62500, 125000, 250000, 500000}

\* a validity test that takes every bandwidth up to the largest legal one
BandwidthInRange(bw) == bw >= 7800 /\ bw <= 500000

BandwidthValid(bw) == bw \in LegalBandwidths

\* setSpreadingFactor, line 139
HalSpreadingFactorValid(sf) == ~(sf < 6 \/ sf > 12)

\* setCodingRate, line 158
HalCodingRateValid(cr) == ~(cr < 5 \/ cr > 8)

\* setTxPower, line 190
TxPowerValid(p) == ~(p < 2 \/ p > 20)

\* the setters, lines 89-200: the object after the call and the result.  A
\* setter writes the member and then the radio, or returns early.
setFrequency(h, v) ==
    IF ~h.available THEN [hal |-> h, ret |-> FALSE]
    ELSE [hal |-> [h EXCEPT !.frequency = v, !.live.frequency = v],
          ret |-> TRUE]

\* a setBandwidth that sets the member and leaves the radio alone
setBandwidthCachedOnly(h, v) ==
    IF ~h.available \/ ~BandwidthValid(v) THEN [hal |-> h, ret |-> FALSE]
    ELSE [hal |-> [h EXCEPT !.bandwidth = v], ret |-> TRUE]

setBandwidth(h, v) ==
    IF ~h.available \/ ~BandwidthValid(v) THEN [hal |-> h, ret |-> FALSE]
    ELSE [hal |-> [h EXCEPT !.bandwidth = v, !.live.bandwidth = v],
          ret |-> TRUE]

setSpreadingFactor(h, v) ==
    IF ~h.available \/ ~HalSpreadingFactorValid(v)
    THEN [hal |-> h, ret |-> FALSE]
    ELSE [hal |-> [h EXCEPT !.spreadingFactor = v,
                            !.live.spreadingFactor = v], ret |-> TRUE]

setCodingRate(h, v) ==
    IF ~h.available \/ ~HalCodingRateValid(v) THEN [hal |-> h, ret |-> FALSE]
    ELSE [hal |-> [h EXCEPT !.codingRate = v, !.live.codingRate = v],
          ret |-> TRUE]

setSyncWord(h, v) ==
    IF ~h.available THEN [hal |-> h, ret |-> FALSE]
    ELSE [hal |-> [h EXCEPT !.syncWord = v, !.live.syncWord = v],
          ret |-> TRUE]

setTxPower(h, v) ==
    IF ~h.available \/ ~TxPowerValid(v) THEN [hal |-> h, ret |-> FALSE]
    ELSE [hal |-> [h EXCEPT !.txPower = v, !.live.txPower = v], ret |-> TRUE]

\* a node that has been running: begun, addressed, having sent id packets
HalRunning(n, id) ==
    setMode([initLoRa(HalConstructed) EXCEPT
                !.available = TRUE, !.nodeAddress = ConfiguredAddr(n),
                !.timeout = ConfiguredTimeout, !.packetId = id], "RECEIVE")

\* an isPacketAvailable that asks the radio in whatever mode it is
isPacketAvailableAnyMode(h, r) ==
    IF ~h.available
    THEN [hal |-> h, radio |-> r, ret |-> FALSE]
    ELSE LET p == parsePacket(r)
         IN [hal |-> h, radio |-> p.radio, ret |-> p.size > 0]

isPacketAvailable(h, r) ==
    IF ~h.available
    THEN [hal |-> h, radio |-> r, ret |-> FALSE]
    ELSE LET h1 == IF h.mode # "RECEIVE" THEN setMode(h, "RECEIVE") ELSE h
             p == parsePacket(r)
         IN [hal |-> h1, radio |-> p.radio, ret |-> p.size > 0]

\* sendPacket, lines 316-322: the source and the id are stamped
\* a counter that passes over 0, the value that stands for "not set"
NextPacketIdSkipZero(h) == IF h.packetId = 255 THEN 1 ELSE h.packetId + 1

NextPacketId(h) == U8(h.packetId + 1)

StampId(h, pkt) ==
    IF pkt.id = 0 THEN [pkt EXCEPT !.id = NextPacketId(h)] ELSE pkt

Stamp(h, pkt) == StampId(h, [pkt EXCEPT !.source = h.nodeAddress])

AdvanceId(h, pkt) ==
    IF pkt.id = 0 THEN [h EXCEPT !.packetId = NextPacketId(h)] ELSE h

EffectiveTimeout(h, timeout) == IF timeout > 0 THEN timeout ELSE h.timeout

\* an encoding that writes the source before the destination
EncodeSourceFirst(pkt, garbage) ==
    <<pkt.source, pkt.destination, pkt.id, pkt.flags, pkt.length>>
    \o [i \in 1..pkt.length |->
            IF i <= PayloadMax THEN pkt.payload[i] ELSE garbage]

\* sendPacket, lines 328-338: the bytes written between beginPacket and
\* endPacket.  A length above 240 reads past the payload array: garbage.
\* (The library caps a frame at 255 bytes; the lengths sent here stay below.)
Encode(pkt, garbage) ==
    <<pkt.destination, pkt.source, pkt.id, pkt.flags, pkt.length>>
    \o [i \in 1..pkt.length |->
            IF i <= PayloadMax THEN pkt.payload[i] ELSE garbage]

\* waitForTxReady, lines 532-539
\* 1000 * (1 << SF) / (bandwidth / 1000), a float division (_bandwidth is a
\* float) truncated to uint32_t; every legal bandwidth is a multiple of
\* 50 Hz, so the quotient is taken over Hz / 50.
\* None of the durations comes near 2^32 for SF <= 12.
SymbolDuration(h) ==
    (1000 * Pow2(h.spreadingFactor) * 20) \div (h.bandwidth \div 50)

EstimatedAirtime(h) ==
    LET symbolDuration == SymbolDuration(h)
        preambleDuration == symbolDuration * 8
        headerDuration == (symbolDuration * 17) \div 4
        payloadSymbols == 8 + (20 * 8) \div (4 * h.spreadingFactor)
        payloadDuration == symbolDuration * payloadSymbols
    IN preambleDuration + headerDuration + payloadDuration

WaitTime(h, timeout) == Min(EstimatedAirtime(h) + SafetyMargin, timeout)

\* a length test that accepts every declared length
LengthUnchecked(length) == length <= 255

\* receivePacket, line 428
LengthValid(length) == length <= PayloadMax

\* receivePacket, line 449
ForUs(h, dest) == dest = h.nodeAddress \/ dest = BroadcastAddr

\* a test that acknowledges every RELIABLE packet, ACKs too
NeedsAckOfAcks(flags) == HasFlag(flags, LORA_FLAG_RELIABLE)

\* receivePacket, line 456
NeedsAck(flags) == HasFlag(flags, LORA_FLAG_RELIABLE) /\ ~HasFlag(flags, LORA_FLAG_ACK)

\* an ACK that itself asks for an acknowledgment
AckPacketReliable(h, pkt) ==
    [destination |-> pkt.source, source |-> h.nodeAddress, id |-> pkt.id,
     flags |-> LORA_FLAG_ACK + LORA_FLAG_RELIABLE, length |-> 0,
     payload |-> <<>>]

\* receivePacket, lines 460-465
AckPacket(h, pkt) ==
    [destination |-> pkt.source, source |-> h.nodeAddress, id |-> pkt.id,
     flags |-> LORA_FLAG_ACK, length |-> 0, payload |-> <<>>]

\* receivePacket, lines 420-469, on the frame parsePacket reported: the packet
\* read, the status decided so far, whether an ACK is to be sent, and the
\* number of payload bytes written into the array (written: history)
Decode(h, r) ==
    LET hdr == [destination |-> U8(ReadSeq(r, 1)), source |-> U8(ReadSeq(r, 2)),
                id |-> U8(ReadSeq(r, 3)), flags |-> U8(ReadSeq(r, 4)),
                length |-> U8(ReadSeq(r, 5)), payload |-> <<>>]
        idx5 == Min(r.idx + HeaderLen, Len(r.buf))
        avail == Len(r.buf) - idx5
        got == Min(hdr.length, avail)
        pkt == [hdr EXCEPT !.payload = SubSeq(r.buf, idx5 + 1, idx5 + got)]
    IN IF ~LengthValid(hdr.length)
       THEN [radio |-> [r EXCEPT !.idx = idx5], pkt |-> hdr, status |-> "ERROR",
             ack |-> FALSE, written |-> 0]
       ELSE IF avail < hdr.length
       THEN [radio |-> [r EXCEPT !.idx = idx5 + got], pkt |-> pkt,
             status |-> "ERROR", ack |-> FALSE, written |-> got]
       ELSE IF ~ForUs(h, hdr.destination)
       THEN [radio |-> [r EXCEPT !.idx = idx5 + got], pkt |-> pkt,
             status |-> "OK", ack |-> FALSE, written |-> got]
       ELSE [radio |-> [r EXCEPT !.idx = idx5 + got], pkt |-> pkt,
             status |-> "OK", ack |-> NeedsAck(hdr.flags), written |-> got]

\* an ACK test that does not look at the source of the ACK
AckMatchesAnySource(h, ackPacket, pkt) ==
    /\ HasFlag(ackPacket.flags, LORA_FLAG_ACK)
    /\ ackPacket.id = pkt.id
    /\ ackPacket.destination = h.nodeAddress

\* sendPacket, lines 370-373: the test that ends the ACK wait
AckMatches(h, ackPacket, pkt) ==
    /\ HasFlag(ackPacket.flags, LORA_FLAG_ACK)
    /\ ackPacket.id = pkt.id
    /\ ackPacket.destination = h.nodeAddress
    /\ ackPacket.source = pkt.destination

\* a wait loop that gives up one poll interval early
WaitingOnePollShort(t, start, eff) == Elapsed(t, start) + PollDelay < eff

\* sendPacket, line 365, and receivePacket, line 407: the loop conditions
Waiting(t, start, eff) == Elapsed(t, start) < eff

(***************************************************************************)
(* Activations.  stack[n] holds the calls in progress at node n, the       *)
(* innermost first: sendPacket calls receivePacket in its ACK wait, and    *)
(* receivePacket calls sendPacket for the ACK.  The code blocks; the other *)
(* node and the clock move meanwhile, so a call is a sequence of steps,    *)
(* cut at each delay() and each poll of the radio.                         *)
(*   pkt, timeout: the arguments; eff: effectiveTimeout; startTime,        *)
(*   success: the locals; dstart, dlen: the delay() in progress;           *)
(*   cret, cpkt: what the call made last returned.                         *)
(* History, read by the properties only: depth, status, retAt (the clock   *)
(* at the return), slept (the sum of the delays asked for), polls (calls   *)
(* of isPacketAvailable made by this activation), written (the frames it   *)
(* wrote), ackFrame (the frame the ACK send it made wrote), ackPolled (a   *)
(* matching ACK was reported to a poll during its wait; ackTimely: one a   *)
(* node sent, before the wait timed out), rxbytes, rxsent (the frame it    *)
(* read), stored (payload bytes it stored), oob (it read past the array).  *)
(***************************************************************************)
Frame(fn, pkt, timeout, depth) ==
    [fn |-> fn, pc |-> "entry", pkt |-> pkt, timeout |-> timeout, eff |-> 0,
     startTime |-> ClockZero, success |-> FALSE, dstart |-> ClockZero,
     dlen |-> 0,
     cret |-> "NONE", cpkt |-> NoPkt,
     depth |-> depth, status |-> "NONE", retAt |-> ClockZero, slept |-> 0, polls |-> 0,
     written |-> <<>>, ackFrame |-> <<>>, ackPolled |-> FALSE,
     ackTimely |-> FALSE,
     rxbytes |-> <<>>, rxsent |-> NoPkt, stored |-> 0, oob |-> FALSE]

NoFrame == Frame("none", NoPkt, 0, 0)

\* last: the call that the step just taken returned from, and its node
\* (history; NoReturn after a step that returns from nothing)
\* op, arg, ret, pre: the call of a step that is a whole call of another
\* function, its argument, its result and the object before it
NoReturn == [node |-> 0, call |-> NoFrame, op |-> "none", arg |-> 0,
             ret |-> FALSE, pre |-> HalConstructed]

\* the bytes of a frame that sendPacket's test accepts as the ACK of pkt
IsAckFrame(bytes, addr, pkt) ==
    /\ Len(bytes) >= HeaderLen
    /\ bytes[1] = addr
    /\ bytes[2] = pkt.destination
    /\ bytes[3] = pkt.id
    /\ HasFlag(bytes[4], LORA_FLAG_ACK)
    /\ bytes[5] <= PayloadMax
    /\ Len(bytes) - HeaderLen >= bytes[5]

\* history: a poll at time t reported the frame rx; note it in every
\* sendPacket of the stack that is in its ACK wait and that it is the ACK of
\* (ackTimely: a node sent it and the wait has not timed out)
MarkPolled(stk, addr, rx, t) ==
    [i \in 1..Len(stk) |->
        IF /\ stk[i].fn = "send"
           /\ stk[i].pc \in {"ackLoop", "ackDelay", "ackRet"}
           /\ IsAckFrame(rx.bytes, addr, stk[i].pkt)
        THEN [stk[i] EXCEPT
                !.ackPolled = TRUE,
                !.ackTimely = @ \/ (/\ rx.sent # NoPkt
                                    /\ Waiting(t, stk[i].startTime, stk[i].eff))]
        ELSE stk[i]]

\* isPacketAvailable called by the activation at the head of stk
Poll(n, stk) ==
    LET q == isPacketAvailable(hal[n], radio[n])
        reported == hal[n].available /\ radio[n].rxq # <<>>
        stk1 == <<[Head(stk) EXCEPT !.polls = @ + 1]>> \o Tail(stk)
    IN [hal |-> q.hal, radio |-> q.radio, ret |-> q.ret,
        stack |-> IF reported
                  THEN MarkPolled(stk1, hal[n].nodeAddress,
                                  Head(radio[n].rxq), now)
                  ELSE stk1]

\* the activation f (the head of stk, as it ends) returns st
Return(n, stk, f, st) ==
    /\ stack' = [stack EXCEPT ![n] =
            IF Tail(stk) = <<>> THEN <<>>
            ELSE <<[Head(Tail(stk)) EXCEPT
                        !.cret = st, !.cpkt = f.pkt,
                        !.ackFrame = IF f.written = <<>> THEN <<>>
                                     ELSE f.written[Len(f.written)]]>>
                 \o Tail(Tail(stk))]
    /\ last' = [NoReturn EXCEPT
                !.node = n,
                !.call = [f EXCEPT !.status = st, !.retAt = now, !.pc = "done",
                                   !.dstart = ClockZero, !.dlen = 0,
                                   !.cret = "NONE", !.cpkt = NoPkt]]

\* delay(ms) called by the activation f, which resumes at pc
Delay(f, pc, ms) ==
    [f EXCEPT !.pc = pc, !.dstart = now, !.dlen = ms, !.slept = @ + ms]

\* a delay that never returns
NeverWoken(f) == FALSE

\* delay(ms) returns once ms have passed
Woken(f) == Elapsed(now, f.dstart) >= f.dlen

Replace(n, stk, f) == stack' = [stack EXCEPT ![n] = <<f>> \o Tail(stk)]

Push(n, stk, f, g) == stack' = [stack EXCEPT ![n] = <<g, f>> \o Tail(stk)]

Idle(n) == owner = "hal" /\ stack[n] = <<>> /\ calls < MaxCalls

\* the return of a call that is one step: the call, its argument, its
\* result and the object before the call
Answer(n, op, v, r) ==
    [NoReturn EXCEPT !.node = n, !.op = op, !.arg = v, !.ret = r,
                     !.pre = hal[n]]

\* the waits the callers ask for are bounded: a longer one only repeats the
\* same loop more often
BoundedWait(n, timeout) ==
    hal[n].available => EffectiveTimeout(hal[n], timeout) <= MaxWaitMs

Running(n, fn) == owner = "hal" /\ stack[n] # <<>> /\ Head(stack[n]).fn = fn

(***************************************************************************)
(* LoRaModule::sendPacket                                                  *)
(***************************************************************************)
CallSend(n) ==
    /\ Idle(n)
    /\ n \in Senders
    /\ \E a \in SendInputs :
         /\ HasFlag(a[3], LORA_FLAG_RELIABLE) => BoundedWait(n, a[5])
         /\ stack' = [stack EXCEPT ![n] =
            <<Frame("send", CallerPacket(a[1], a[2], a[3], a[4], Seed), a[5], 0)>>]
    /\ calls' = calls + 1
    /\ last' = NoReturn /\ UNCHANGED <<mvars, owner, now, hal, radio>>

\* a sendPacket that transmits its frame a second time
TransmitTwice(written, bytes) == Append(Append(written, bytes), bytes)

\* lines 327-341: beginPacket, the writes and endPacket put one frame on air
Transmit(written, bytes) == Append(written, bytes)

\* lines 307-344: up to the delay of waitForTxReady
SendEntry(n) ==
    /\ Running(n, "send")
    /\ Head(stack[n]).pc = "entry"
    /\ LET f == Head(stack[n])
           h == hal[n]
       IN IF ~h.available
          THEN /\ Return(n, stack[n], f, "ERROR")
               /\ UNCHANGED <<hal, radio>>
          ELSE \E success \in BOOLEAN,
                  garbage \in (IF f.pkt.length > PayloadMax
                               THEN GarbageBytes ELSE {0}) :
               \E heard \in (IF success THEN SUBSET (Nodes \ {n}) ELSE {{}}) :
               LET h1 == IF h.mode # "TRANSMIT" THEN setMode(h, "TRANSMIT") ELSE h
                   pkt == Stamp(h1, f.pkt)
                   h2 == AdvanceId(h1, f.pkt)
                   eff == EffectiveTimeout(h2, f.timeout)
                   bytes == Encode(pkt, garbage)
                   f1 == [f EXCEPT !.pkt = pkt, !.eff = eff, !.success = success,
                                   !.written = Transmit(@, bytes),
                                   !.oob = pkt.length > PayloadMax]
               IN /\ hal' = [hal EXCEPT ![n] = h2]
                  /\ radio' = [m \in Nodes |->
                                 IF m \in heard THEN Receive(radio[m], bytes, pkt)
                                 ELSE radio[m]]
                  /\ Replace(n, stack[n], Delay(f1, "txWait", WaitTime(h2, eff)))
                  /\ last' = NoReturn
    /\ UNCHANGED <<mvars, owner, now, calls>>

\* a sendPacket that does not look at what endPacket returned
TxFailureIgnored(f) == FALSE

\* line 347: endPacket returned false
TxFailed(f) == ~f.success

\* lines 344-364: waitForTxReady returns (its status is not used)
SendTxDone(n) ==
    /\ Running(n, "send")
    /\ Head(stack[n]).pc = "txWait"
    /\ Woken(Head(stack[n]))
    /\ LET f == Head(stack[n])
       IN IF TxFailed(f)
          THEN Return(n, stack[n], f, "ERROR") /\ UNCHANGED hal
          ELSE IF ~HasFlag(f.pkt.flags, LORA_FLAG_RELIABLE)
          THEN Return(n, stack[n], f, "OK") /\ UNCHANGED hal
          ELSE /\ hal' = [hal EXCEPT ![n] = setMode(@, "RECEIVE")]
               /\ Replace(n, stack[n], [f EXCEPT !.pc = "ackLoop", !.startTime = now])
               /\ last' = NoReturn
    /\ UNCHANGED <<mvars, owner, now, calls, radio>>

\* lines 365-368 and 379-384: one turn of the ACK wait
SendAckLoop(n) ==
    /\ Running(n, "send")
    /\ \/ Head(stack[n]).pc = "ackLoop"
       \/ Head(stack[n]).pc = "ackDelay" /\ Woken(Head(stack[n]))
    /\ LET f == Head(stack[n])
       IN IF Waiting(now, f.startTime, f.eff)
          THEN LET q == Poll(n, stack[n])
                   f1 == Head(q.stack)
               IN /\ hal' = [hal EXCEPT ![n] = q.hal]
                  /\ radio' = [radio EXCEPT ![n] = q.radio]
                  /\ IF q.ret
                     THEN Push(n, stack[n], [f1 EXCEPT !.pc = "ackRet"],
                               Frame("recv", NoPkt, AckRecvTimeout, f.depth + 1))
                     ELSE Replace(n, stack[n], Delay(f1, "ackDelay", PollDelay))
                  /\ last' = NoReturn
          ELSE Return(n, stack[n], f, "NO_ACK") /\ UNCHANGED <<hal, radio>>
    /\ UNCHANGED <<mvars, owner, now, calls>>

\* lines 368-379: receivePacket returned
SendAckRet(n) ==
    /\ Running(n, "send")
    /\ Head(stack[n]).pc = "ackRet"
    /\ LET f == Head(stack[n])
       IN IF f.cret = "OK" /\ AckMatches(hal[n], f.cpkt, f.pkt)
          THEN Return(n, stack[n], f, "OK")
          ELSE Replace(n, stack[n], Delay(f, "ackDelay", PollDelay)) /\ last' = NoReturn
    /\ UNCHANGED <<mvars, owner, now, calls, hal, radio>>

(***************************************************************************)
(* LoRaModule::receivePacket                                               *)
(***************************************************************************)
CallRecv(n) ==
    /\ Idle(n)
    /\ \E timeout \in RecvTimeouts :
         /\ BoundedWait(n, timeout)
         /\ stack' = [stack EXCEPT ![n] = <<Frame("recv", NoPkt, timeout, 0)>>]
    /\ calls' = calls + 1
    /\ last' = NoReturn /\ UNCHANGED <<mvars, owner, now, hal, radio>>

\* lines 420-471 on the frame just reported; h, r, stk: the state after the poll
ReadPacket(n, h, r, stk) ==
    LET f == Head(stk)
        d == Decode(h, r)
        f1 == [f EXCEPT !.pkt = d.pkt, !.rxbytes = r.buf, !.rxsent = r.sent,
                        !.stored = d.written]
    IN /\ hal' = [hal EXCEPT ![n] = h]
       /\ radio' = [radio EXCEPT ![n] = d.radio]
       /\ IF d.status = "OK" /\ d.ack
          THEN /\ Push(n, stk, [f1 EXCEPT !.pc = "ackSent"],
                       Frame("send", AckPacket(h, d.pkt), AckSendTimeout, f.depth + 1))
               /\ last' = NoReturn
          ELSE Return(n, stk, f1, d.status)

\* lines 392-405
RecvEntry(n) ==
    /\ Running(n, "recv")
    /\ Head(stack[n]).pc = "entry"
    /\ LET f == Head(stack[n])
       IN IF ~hal[n].available
          THEN Return(n, stack[n], f, "ERROR") /\ UNCHANGED <<hal, radio>>
          ELSE LET q == Poll(n, stack[n])
               IN IF q.ret
                  THEN ReadPacket(n, q.hal, q.radio, q.stack)
                  ELSE /\ hal' = [hal EXCEPT ![n] = q.hal]
                       /\ radio' = [radio EXCEPT ![n] = q.radio]
                       /\ Replace(n, q.stack,
                             [Head(q.stack) EXCEPT
                                !.pc = "waitLoop", !.startTime = now,
                                !.eff = EffectiveTimeout(q.hal, f.timeout)])
                       /\ last' = NoReturn
    /\ UNCHANGED <<mvars, owner, now, calls>>

\* lines 407-412: one turn of the wait for a packet
RecvLoop(n) ==
    /\ Running(n, "recv")
    /\ \/ Head(stack[n]).pc = "waitLoop"
       \/ Head(stack[n]).pc = "waitDelay" /\ Woken(Head(stack[n]))
    /\ LET f == Head(stack[n])
       IN IF Waiting(now, f.startTime, f.eff)
          THEN LET q == Poll(n, stack[n])
               IN /\ hal' = [hal EXCEPT ![n] = q.hal]
                  /\ radio' = [radio EXCEPT ![n] = q.radio]
                  /\ IF q.ret
                     THEN Replace(n, q.stack, [Head(q.stack) EXCEPT !.pc = "postCheck"])
                     ELSE Replace(n, q.stack, Delay(Head(q.stack), "waitDelay", PollDelay))
          ELSE /\ Replace(n, stack[n], [f EXCEPT !.pc = "postCheck"])
               /\ UNCHANGED <<hal, radio>>
    /\ last' = NoReturn /\ UNCHANGED <<mvars, owner, now, calls>>

\* lines 415-418, then the read
RecvPost(n) ==
    /\ Running(n, "recv")
    /\ Head(stack[n]).pc = "postCheck"
    /\ LET q == Poll(n, stack[n])
       IN IF q.ret
          THEN ReadPacket(n, q.hal, q.radio, q.stack)
          ELSE /\ hal' = [hal EXCEPT ![n] = q.hal]
               /\ radio' = [radio EXCEPT ![n] = q.radio]
               /\ Return(n, q.stack, Head(q.stack), "TIMEOUT")
    /\ UNCHANGED <<mvars, owner, now, calls>>

\* lines 468-471: the ACK send returned
RecvAckSent(n) ==
    /\ Running(n, "recv")
    /\ Head(stack[n]).pc = "ackSent"
    /\ Return(n, stack[n], Head(stack[n]), "OK")
    /\ UNCHANGED <<mvars, owner, now, calls, hal, radio>>

(***************************************************************************)
(* The other calls of LoRaModule, made between sendPacket and              *)
(* receivePacket calls.                                                    *)
(***************************************************************************)
\* begin, lines 29-69: initLoRa succeeds or not
Begin(n) ==
    /\ Idle(n)
    /\ \E ok \in BOOLEAN :
         hal' = [hal EXCEPT ![n] =
                    IF ok
                    THEN setMode(initLoRa([@ EXCEPT
                                    !.frequency = TDECK_LORA_FREQUENCY,
                                    !.available = TRUE]), "RECEIVE")
                    ELSE [@ EXCEPT !.frequency = TDECK_LORA_FREQUENCY,
                                   !.available = FALSE]]
    /\ calls' = calls + 1
    /\ last' = NoReturn /\ UNCHANGED <<mvars, owner, now, radio, stack>>

\* end, lines 71-82
End(n) ==
    /\ Idle(n)
    /\ hal[n].available
    /\ hal' = [hal EXCEPT ![n] = [setMode(@, "SLEEP") EXCEPT !.available = FALSE]]
    /\ calls' = calls + 1
    /\ last' = NoReturn /\ UNCHANGED <<mvars, owner, now, radio, stack>>

\* setNodeAddress, lines 252-256
SetNodeAddress(n) ==
    /\ Idle(n)
    /\ \E a \in {DefaultAddress, ConfiguredAddr(n)} \ {hal[n].nodeAddress} :
         hal' = [hal EXCEPT ![n].nodeAddress = a]
    /\ calls' = calls + 1
    /\ last' = NoReturn /\ UNCHANGED <<mvars, owner, now, radio, stack>>

\* setTimeout, lines 474-477
SetTimeout(n) ==
    /\ Idle(n)
    /\ \E t \in SetTimeouts \ {hal[n].timeout} :
         hal' = [hal EXCEPT ![n].timeout = t]
    /\ calls' = calls + 1
    /\ last' = NoReturn /\ UNCHANGED <<mvars, owner, now, radio, stack>>

\* isPacketAvailable called by the application, lines 263-276
CallIsPacketAvailable(n) ==
    /\ Idle(n)
    /\ LET q == isPacketAvailable(hal[n], radio[n])
       IN /\ hal' = [hal EXCEPT ![n] = q.hal]
          /\ radio' = [radio EXCEPT ![n] = q.radio]
          /\ last' = Answer(n, "isPacketAvailable", 0, q.ret)
    /\ calls' = calls + 1
    /\ UNCHANGED <<mvars, owner, now, stack>>

(***************************************************************************)
(* The configuration calls of the application, made between two calls of   *)
(* sendPacket and receivePacket.  The arguments are the legal values and   *)
(* the illegal ones on both sides of each range; a uint8_t argument is     *)
(* within 0..255.                                                          *)
(***************************************************************************)
Frequencies == {TDECK_LORA_FREQUENCY, 915000000}
Bandwidths == LegalBandwidths \cup {0, 7799, 100000, 500001}
SpreadingFactors == (5..13) \cup {0, 255}
CodingRates == (4..9) \cup {0, 255}
SyncWords == {TDECK_LORA_SYNC_WORD, 52}
TxPowers == {-1, 0, 1, 2, 10, 20, 21}
Modes == {"STANDBY", "SLEEP", "TRANSMIT", "RECEIVE", "CAD"}

\* one step that is a whole call of a setter
Set(n, op, v, q) ==
    /\ hal' = [hal EXCEPT ![n] = q.hal]
    /\ last' = Answer(n, op, v, q.ret)
    /\ calls' = calls + 1
    /\ UNCHANGED <<mvars, owner, now, radio, stack>>

SetFrequency(n) ==
    Idle(n) /\ \E v \in Frequencies :
        Set(n, "setFrequency", v, setFrequency(hal[n], v))

SetBandwidth(n) ==
    Idle(n) /\ \E v \in Bandwidths :
        Set(n, "setBandwidth", v, setBandwidth(hal[n], v))

SetSpreadingFactor(n) ==
    Idle(n) /\ \E v \in SpreadingFactors :
        Set(n, "setSpreadingFactor", v, setSpreadingFactor(hal[n], v))

SetCodingRate(n) ==
    Idle(n) /\ \E v \in CodingRates :
        Set(n, "setCodingRate", v, setCodingRate(hal[n], v))

SetSyncWord(n) ==
    Idle(n) /\ \E v \in SyncWords :
        Set(n, "setSyncWord", v, setSyncWord(hal[n], v))

SetTxPower(n) ==
    Idle(n) /\ \E v \in TxPowers :
        Set(n, "setTxPower", v, setTxPower(hal[n], v))

\* setMode called by the application, lines 202-245
SetMode(n) ==
    Idle(n) /\ \E m \in Modes :
        Set(n, "setMode", m,
            [hal |-> setMode(hal[n], m), ret |-> setModeResult(hal[n], m)])

\* getPacketRssi, lines 278-285, and getPacketSnr, lines 287-294: the object
\* is not written; the answer is a number, which is not kept
GetPacketRssi(n) ==
    Idle(n) /\ Set(n, "getPacketRssi", 0,
                   [hal |-> hal[n], ret |-> hal[n].available])

GetPacketSnr(n) ==
    Idle(n) /\ Set(n, "getPacketSnr", 0,
                   [hal |-> hal[n], ret |-> hal[n].available])

(***************************************************************************)
(* The environment: frames of other senders, well formed or not, and the   *)
(* clock.  Code between two delays takes no time of its own: the clock     *)
(* moves, to the end of the shortest delay in progress, only when every    *)
(* call in progress is inside a delay.                                     *)
(***************************************************************************)
ForeignFrames ==
    { <<>>,
      <<2, 9, 5>>,
      <<2, 9, 5, LORA_FLAG_RELIABLE, 3, 7>>,
      <<2, 9, 5, LORA_FLAG_RELIABLE, PayloadMax + 10>>
          \o [i \in 1..(PayloadMax + 10) |-> 7],
      <<1, 9, 7, LORA_FLAG_RELIABLE, 1, 171>>,
      <<1, 2, 5, LORA_FLAG_ACK, 0>>,
      <<2, 9, 6, LORA_FLAG_ACK + LORA_FLAG_RELIABLE, 0>> }

Inject(n) ==
    /\ owner = "hal"
    /\ calls < MaxCalls
    /\ Len(radio[n].rxq) < MaxQueue
    /\ \E bytes \in ForeignFrames :
         radio' = [radio EXCEPT ![n] = Receive(@, bytes, NoPkt)]
    /\ calls' = calls + 1
    /\ last' = NoReturn /\ UNCHANGED <<mvars, owner, now, hal, stack>>

Sleeping(n) ==
    /\ stack[n] # <<>>
    /\ Head(stack[n]).pc \in {"txWait", "ackDelay", "waitDelay"}
    /\ ~Woken(Head(stack[n]))

Remaining(n) == Head(stack[n]).dlen - Elapsed(now, Head(stack[n]).dstart)

Advance ==
    /\ owner = "hal"
    /\ \E n \in Nodes :
         /\ Sleeping(n)
         /\ \A m \in Nodes : stack[m] # <<>> =>
                /\ Sleeping(m)
                /\ Remaining(n) <= Remaining(m)
         /\ now' = ClockAdd(now, Remaining(n))
    /\ last' = NoReturn /\ UNCHANGED <<mvars, owner, calls, hal, radio, stack>>

(***************************************************************************)
(* LoRaManager.  mgr: the fields of the object; lora: the settings of the  *)
(* radio (what the LoRa.set... calls last wrote); store: the configuration *)
(* file, NoConfig when there is none; order: the order in which the build  *)
(* evaluates the two reads of (LoRa.read() << 8) | LoRa.read(), which the  *)
(* language leaves open.  The manager's radio is radio[MgrNode].           *)
(* out (history): the call the step just taken made, its arguments, its    *)
(* result, the state before it, the frame update parsed, the packet given  *)
(* to the callback and the frames written.                                 *)
(***************************************************************************)
MgrConstructed ==
    [initialized |-> FALSE, enabled |-> FALSE, deviceId |-> DeviceId,
     packetCounter |-> 0, frequency |-> TDECK_LORA_FREQUENCY,
     bandwidth |-> TDECK_LORA_BANDWIDTH,
     spreadingFactor |-> TDECK_LORA_SPREADING_FACTOR,
     codingRate |-> TDECK_LORA_CODING_RATE, syncWord |-> TDECK_LORA_SYNC_WORD,
     lastRssi |-> 0, lastSnr |-> 0, messageCallback |-> FALSE]

\* the settings of a radio that LoRa.begin has not touched
LoraReset ==
    [begun |-> FALSE, frequency |-> 0, bandwidth |-> TDECK_LORA_BANDWIDTH,
     spreadingFactor |-> TDECK_LORA_SPREADING_FACTOR,
     codingRate |-> TDECK_LORA_CODING_RATE, syncWord |-> TDECK_LORA_SYNC_WORD]

\* init, lines 55-64: what a successful init writes to the radio
LoraBegun(m) ==
    [begun |-> TRUE, frequency |-> m.frequency, bandwidth |-> m.bandwidth,
     spreadingFactor |-> m.spreadingFactor, codingRate |-> m.codingRate,
     syncWord |-> m.syncWord]

\* a manager that has been running: initialized, with a callback registered
MgrRunning ==
    [MgrConstructed EXCEPT !.initialized = TRUE, !.enabled = TRUE,
                           !.messageCallback = TRUE, !.packetCounter = 65535]

NoConfig == [present |-> FALSE]

\* saveConfig, lines 309-316: the document written
ConfigDoc(m) ==
    [present |-> TRUE, frequency |-> m.frequency, bandwidth |-> m.bandwidth,
     spreadingFactor |-> m.spreadingFactor, codingRate |-> m.codingRate,
     syncWord |-> m.syncWord, deviceId |-> m.deviceId, enabled |-> m.enabled]

\* saveConfig: the file after the call, saved telling whether the write worked
saveConfig(m, st, saved) == IF saved THEN ConfigDoc(m) ELSE st

\* loadConfig, lines 281-301
loadConfig(m, st) ==
    IF ~st.present THEN m
    ELSE [m EXCEPT !.frequency = st.frequency, !.bandwidth = st.bandwidth,
                   !.spreadingFactor = st.spreadingFactor,
                   !.codingRate = st.codingRate, !.syncWord = st.syncWord,
                   !.deviceId = st.deviceId, !.enabled = st.enabled]

\* the settings that configure is about
Settings(m) ==
    [frequency |-> m.frequency, bandwidth |-> m.bandwidth,
     spreadingFactor |-> m.spreadingFactor, codingRate |-> m.codingRate,
     syncWord |-> m.syncWord]

NoMPkt == [messageType |-> -1, sourceId |-> -1, destId |-> -1, packetId |-> -1,
           length |-> 0, payload |-> <<>>]

NoOut == [op |-> "none", args |-> <<>>, ret |-> FALSE, mgr |-> MgrConstructed,
          lora |-> LoraReset, store |-> NoConfig, rx |-> <<>>,
          delivered |-> NoMPkt, called |-> FALSE, written |-> <<>>,
          initFailed |-> FALSE]

U16(x) == x % 65536

\* createPacket, lines 492-505 (length is a uint8_t parameter)
createPacket(m, messageType, destId, payload, length) ==
    [messageType |-> messageType, sourceId |-> m.deviceId, destId |-> destId,
     packetId |-> m.packetCounter, length |-> U8(length),
     payload |-> SubSeq(payload, 1, Min(U8(length), Len(payload)))]

CountPacket(m) == [m EXCEPT !.packetCounter = U16(@ + 1)]

\* sendPacket, lines 188-198: the bytes written
MgrEncode(pkt) ==
    <<pkt.messageType, pkt.sourceId \div 256, pkt.sourceId % 256,
      pkt.destId \div 256, pkt.destId % 256,
      pkt.packetId \div 256, pkt.packetId % 256, pkt.length>>
    \o SubSeq(pkt.payload, 1, pkt.length)

\* sendPacket, lines 179-211: the frames written by the call
MgrWritten(m, pkt) ==
    IF ~m.initialized \/ ~m.enabled THEN <<>> ELSE <<MgrEncode(pkt)>>

\* sendAcknowledgment, lines 508-515
AckFor(m, pkt) ==
    createPacket(m, LORA_MSG_ACK, pkt.sourceId,
                 <<(pkt.packetId \div 256) % 256, pkt.packetId % 256>>, 2)

\* (LoRa.read() << 8) | LoRa.read(), the reads being the k-th and the next
Read16(r, k, ord) ==
    IF ord = "leftFirst"
    THEN U16(ReadSeq(r, k) * 256 + ReadSeq(r, k + 1))
    ELSE U16(ReadSeq(r, k + 1) * 256 + ReadSeq(r, k))

\* an address test that knows no broadcast address
MgrForUsUnicastOnly(m, destId) == destId = m.deviceId

\* handleReceivedPacket, line 381
MgrForUs(m, destId) == destId = m.deviceId \/ destId = MgrBroadcast

\* handleReceivedPacket, line 481
MgrNeedsAck(destId, messageType) ==
    destId # MgrBroadcast /\ messageType # LORA_MSG_ACK

\* handleReceivedPacket, lines 360-489, on the frame parsePacket reported
handleReceivedPacket(m, r, ord) ==
    LET hdr == [messageType |-> U8(ReadSeq(r, 1)),
                sourceId |-> Read16(r, 2, ord), destId |-> Read16(r, 4, ord),
                packetId |-> Read16(r, 6, ord), length |-> U8(ReadSeq(r, 8)),
                payload |-> <<>>]
        idx8 == r.idx + MinHeader
        got == Min(hdr.length, Len(r.buf) - idx8)
        pkt == [hdr EXCEPT !.payload = SubSeq(r.buf, idx8 + 1, idx8 + got)]
        m1 == [m EXCEPT !.lastRssi = Rssi, !.lastSnr = Snr]
        ignored(m2, r2) == [mgr |-> m2, radio |-> r2, delivered |-> NoMPkt,
                            called |-> FALSE, written |-> <<>>]
    IN IF available(r) < MinHeader THEN ignored(m, r)
       ELSE IF ~MgrForUs(m1, hdr.destId)
       THEN ignored(m1, [r EXCEPT !.idx = idx8])
       ELSE IF hdr.length > LORA_MAX_PACKET_SIZE
       THEN ignored(m1, [r EXCEPT !.idx = idx8])
       ELSE LET ack == MgrNeedsAck(hdr.destId, hdr.messageType)
            IN [mgr |-> IF ack THEN CountPacket(m1) ELSE m1,
                radio |-> [r EXCEPT !.idx = idx8 + got],
                delivered |-> IF m1.messageCallback THEN pkt ELSE NoMPkt,
                called |-> m1.messageCallback,
                written |-> IF ack THEN MgrWritten(m1, AckFor(m1, pkt))
                            ELSE <<>>]

\* configure, lines 233-240: the radio takes the frequencies of its band
FrequencyAccepted(frequency) ==
    frequency >= BandLow /\ frequency <= BandHigh

\* configure, lines 249 and 258
SpreadingFactorValid(sf) == sf >= 6 /\ sf <= 12

CodingRateValid(cr) == cr >= 5 /\ cr <= 8

\* configure, lines 219-278, for the arguments a = <<frequency, bandwidth,
\* spreadingFactor, codingRate, syncWord>>: the object, the radio, whether
\* saveConfig is called, and the result
configure(m, l, a) ==
    IF ~m.initialized
    THEN [mgr |-> [m EXCEPT !.frequency = a[1], !.bandwidth = a[2],
                            !.spreadingFactor = a[3], !.codingRate = a[4],
                            !.syncWord = a[5]],
          lora |-> l, save |-> FALSE, ret |-> TRUE]
    ELSE LET setF == a[1] # m.frequency /\ FrequencyAccepted(a[1])
             setSF == a[3] # m.spreadingFactor /\ SpreadingFactorValid(a[3])
             setCR == a[4] # m.codingRate /\ CodingRateValid(a[4])
             success == /\ (a[1] # m.frequency => FrequencyAccepted(a[1]))
                        /\ SpreadingFactorValid(a[3])
                        /\ CodingRateValid(a[4])
         IN [mgr |-> [m EXCEPT
                        !.frequency = IF setF THEN a[1] ELSE @,
                        !.bandwidth = a[2],
                        !.spreadingFactor = IF setSF THEN a[3] ELSE @,
                        !.codingRate = IF setCR THEN a[4] ELSE @,
                        !.syncWord = a[5]],
             lora |-> [l EXCEPT
                        !.frequency = IF setF THEN a[1] ELSE @,
                        !.bandwidth = IF a[2] # m.bandwidth THEN a[2] ELSE @,
                        !.spreadingFactor = IF setSF THEN a[3] ELSE @,
                        !.codingRate = IF setCR THEN a[4] ELSE @,
                        !.syncWord = IF a[5] # m.syncWord THEN a[5] ELSE @],
             save |-> success, ret |-> success]

MgrIdle == owner = "mgr" /\ calls < MaxCalls

\* the history of a call: its name, arguments and result, the state before
\* initFailed: init has returned false and has not returned true since
Called(op, args, ret) ==
    [NoOut EXCEPT !.op = op, !.args = args, !.ret = ret, !.mgr = mgr,
                  !.lora = lora, !.store = store,
                  !.initFailed = IF op = "init" THEN ~ret ELSE out.initFailed]

\* init, lines 46-75
MgrInit ==
    /\ MgrIdle
    /\ \E ok \in BOOLEAN :
         LET m == loadConfig(mgr, store)
         IN /\ mgr' = IF ok THEN [m EXCEPT !.initialized = TRUE, !.enabled = TRUE]
                      ELSE m
            /\ lora' = IF ok THEN LoraBegun(m) ELSE lora
            /\ out' = Called("init", <<>>, ok)
    /\ calls' = calls + 1
    /\ UNCHANGED <<task, owner, now, hal, radio, stack, last, store, order>>

\* update, lines 78-88
MgrUpdate ==
    /\ MgrIdle
    /\ IF ~mgr.initialized \/ ~mgr.enabled
       THEN /\ out' = Called("update", <<>>, FALSE)
            /\ UNCHANGED <<mgr, radio>>
       ELSE LET p == parsePacket(radio[MgrNode])
                d == handleReceivedPacket(mgr, p.radio, order)
            IN IF p.size > 0
               THEN /\ mgr' = d.mgr
                    /\ radio' = [radio EXCEPT ![MgrNode] = d.radio]
                    /\ out' = [Called("update", <<>>, TRUE) EXCEPT
                                 !.rx = p.radio.buf, !.delivered = d.delivered,
                                 !.called = d.called, !.written = d.written]
               ELSE /\ radio' = [radio EXCEPT ![MgrNode] = p.radio]
                    /\ out' = Called("update", <<>>, FALSE)
                    /\ UNCHANGED mgr
    /\ calls' = calls + 1
    /\ UNCHANGED <<task, owner, now, hal, stack, last, lora, store, order>>

\* configure, lines 219-278
MgrConfigure ==
    /\ MgrIdle
    /\ \E a \in ConfigInputs, saved \in BOOLEAN :
         LET c == configure(mgr, lora, a)
         IN /\ c.save \/ saved
            /\ mgr' = c.mgr
            /\ lora' = c.lora
            /\ store' = IF c.save THEN saveConfig(c.mgr, store, saved) ELSE store
            /\ out' = Called("configure", a, c.ret)
    /\ calls' = calls + 1
    /\ UNCHANGED <<task, owner, now, hal, radio, stack, last, order>>

\* setMessageCallback, lines 214-216
MgrSetMessageCallback ==
    /\ MgrIdle
    /\ \E cb \in BOOLEAN \ {mgr.messageCallback} :
         /\ mgr' = [mgr EXCEPT !.messageCallback = cb]
         /\ out' = Called("setMessageCallback", <<cb>>, TRUE)
    /\ calls' = calls + 1
    /\ UNCHANGED <<task, owner, now, hal, radio, stack, last, lora, store, order>>

\* setEnabled, lines 344-347
MgrSetEnabled ==
    /\ MgrIdle
    /\ \E enable \in BOOLEAN \ {mgr.enabled}, saved \in BOOLEAN :
         /\ mgr' = [mgr EXCEPT !.enabled = enable]
         /\ store' = saveConfig(mgr', store, saved)
         /\ out' = Called("setEnabled", <<enable>>, TRUE)
    /\ calls' = calls + 1
    /\ UNCHANGED <<task, owner, now, hal, radio, stack, last, lora, order>>

\* sendTextMessage, lines 91-110, for a message of len bytes
MgrSendTextMessage ==
    /\ MgrIdle
    /\ \E len \in TextLengths, destId \in {MgrBroadcast, PeerId} :
         LET length == Min(len, LORA_MAX_PACKET_SIZE)
             payload == [i \in 1..length |-> U8(Seed + i)]
             pkt == createPacket(mgr, LORA_MSG_TEXT, destId, payload, length)
             on == mgr.initialized /\ mgr.enabled
         IN \E result \in (IF on THEN BOOLEAN ELSE {FALSE}) :
              /\ mgr' = IF on THEN CountPacket(mgr) ELSE mgr
              /\ out' = [Called("sendTextMessage", <<len, destId>>, result)
                            EXCEPT !.written = MgrWritten(mgr, pkt)]
    /\ calls' = calls + 1
    /\ UNCHANGED <<task, owner, now, hal, radio, stack, last, lora, store, order>>

\* frames of other devices, well formed or not, received by the manager's
\* radio: <<type, source (2), destination (2), id (2), length>> and payload
MgrFrames ==
    { <<LORA_MSG_TEXT, 0, 9, 255, 255, 1, 7, 2, 104, 105>>,
      <<LORA_MSG_TEXT, 0, 9, DeviceId \div 256, DeviceId % 256, 1, 7, 1, 65>>,
      <<LORA_MSG_TEXT, 0, 9, DeviceId % 256, DeviceId \div 256, 1, 7, 1, 65>>,
      <<LORA_MSG_TEXT, 0, 9, 0, 3, 1, 7, 1, 65>>,
      <<LORA_MSG_ACK, 0, 9, DeviceId \div 256, DeviceId % 256, 1, 7, 2, 0, 5>>,
      <<LORA_MSG_TEXT, 0, 9, 255, 255, 1, 7, 5, 65>>,
      <<LORA_MSG_TEXT, 0, 9, 255>> }

MgrInject ==
    /\ MgrIdle
    /\ Len(radio[MgrNode].rxq) < MaxQueue
    /\ \E bytes \in MgrFrames :
         radio' = [radio EXCEPT ![MgrNode] = Receive(@, bytes, NoPkt)]
    /\ out' = [NoOut EXCEPT !.initFailed = out.initFailed]
    /\ calls' = calls + 1
    /\ UNCHANGED <<task, owner, now, hal, stack, last, mgr, lora, store, order>>

(***************************************************************************)
(* The two tasks of main.cpp.  setup creates uiTask on core 1 and          *)
(* systemTask on core 0; systemTask calls loraManager.update() in its      *)
(* loop, and the send of the messenger application runs in uiTask, from    *)
(* the event callback of its send button, which lv_task_handler calls.     *)
(* The tasks run in parallel and share the manager and the radio without   *)
(* a lock, so the steps of a send and of an update interleave.  A step is  *)
(* one access of the counter or one call of the radio library.             *)
(* task.ui, task.sys: where each task is inside its LoRaManager call, the  *)
(* counter value it has read, and the frame of the packet it created;      *)
(* task.fifo: the bytes written to the radio since the last beginPacket;   *)
(* task.air: the frames endPacket has put on air (history).                *)
(***************************************************************************)
TaskIdle ==
    [ui |-> [pc |-> "idle", id |-> 0, frame |-> <<>>],
     sys |-> [pc |-> "idle", id |-> 0, frame |-> <<>>],
     fifo |-> <<>>, air |-> <<>>]

Tasks == {"ui", "sys"}

\* uiTask: sendTextMessage, lines 91-110, up to the read of _packetCounter
\* in createPacket (line 497)
UiSend ==
    /\ MgrIdle
    /\ task.ui.pc = "idle"
    /\ mgr.initialized /\ mgr.enabled
    /\ \E destId \in {MgrBroadcast, PeerId} :
         LET payload == [i \in 1..2 |-> U8(Seed + i)]
             pkt == createPacket(mgr, LORA_MSG_TEXT, destId, payload, 2)
         IN task' = [task EXCEPT !.ui = [pc |-> "count", id |-> mgr.packetCounter,
                                         frame |-> MgrEncode(pkt)]]
    /\ calls' = calls + 1
    /\ UNCHANGED <<owner, now, hal, radio, stack, last, mgr, lora, store,
                   order, out>>

\* systemTask: update, lines 78-88, and handleReceivedPacket up to the ACK:
\* parsePacket and the reads of the frame it reported
SysUpdate ==
    /\ owner = "mgr"
    /\ task.sys.pc = "idle"
    /\ mgr.initialized /\ mgr.enabled
    /\ LET p == parsePacket(radio[MgrNode])
           d == handleReceivedPacket(mgr, p.radio, order)
       IN /\ p.size > 0
          /\ radio' = [radio EXCEPT ![MgrNode] = d.radio]
          /\ mgr' = [d.mgr EXCEPT !.packetCounter = mgr.packetCounter]
          /\ task' = [task EXCEPT !.sys =
                        IF d.written # <<>>
                        THEN [pc |-> "count", id |-> mgr.packetCounter,
                              frame |-> d.written[1]]
                        ELSE [pc |-> "read", id |-> 0, frame |-> <<>>]]
    /\ UNCHANGED <<owner, now, calls, hal, stack, last, lora, store, order, out>>

\* handleReceivedPacket, lines 485-488: no ACK to send; the callback, return
SysReturn ==
    /\ owner = "mgr"
    /\ task.sys.pc = "read"
    /\ task' = [task EXCEPT !.sys = TaskIdle.sys]
    /\ UNCHANGED <<owner, now, calls, hal, radio, stack, last, mgr, lora,
                   store, order, out>>

\* createPacket, line 497: _packetCounter++ stores the value read plus one
Count(t) ==
    /\ owner = "mgr"
    /\ task[t].pc = "count"
    /\ mgr' = [mgr EXCEPT !.packetCounter = U16(task[t].id + 1)]
    /\ task' = [task EXCEPT ![t].pc = "created"]
    /\ UNCHANGED <<owner, now, calls, hal, radio, stack, last, lora, store,
                   order, out>>

\* sendPacket, line 185: LoRa.beginPacket() starts an empty frame
BeginPacket(t) ==
    /\ owner = "mgr"
    /\ task[t].pc = "created"
    /\ task' = [task EXCEPT ![t].pc = "begun", !.fifo = <<>>]
    /\ UNCHANGED <<owner, now, calls, hal, radio, stack, last, mgr, lora,
                   store, order, out>>

\* sendPacket, lines 188-198: the writes of the header and the payload
WritePacket(t) ==
    /\ owner = "mgr"
    /\ task[t].pc = "begun"
    /\ task' = [task EXCEPT ![t].pc = "written",
                            !.fifo = @ \o task[t].frame]
    /\ UNCHANGED <<owner, now, calls, hal, radio, stack, last, mgr, lora,
                   store, order, out>>

\* sendPacket, line 201: LoRa.endPacket() transmits what was written
EndPacket(t) ==
    /\ owner = "mgr"
    /\ task[t].pc = "written"
    /\ task' = [task EXCEPT ![t] = TaskIdle[t], !.air = Append(@, task.fifo),
                            !.fifo = <<>>]
    /\ UNCHANGED <<owner, now, calls, hal, radio, stack, last, mgr, lora,
                   store, order, out>>

TaskNext ==
    \/ UiSend \/ SysUpdate \/ SysReturn \/ MgrInject
    \/ \E t \in Tasks :
         Count(t) \/ BeginPacket(t) \/ WritePacket(t) \/ EndPacket(t)

(***************************************************************************)
(* The specification.                                                      *)
(***************************************************************************)
HalStates(n) == {HalConstructed, HalRunning(n, StartId(n))}

MgrStates == {MgrConstructed, MgrRunning}

Init ==
    /\ owner \in {"hal", "mgr"}
    /\ now = StartTime
    /\ calls = 0
    /\ hal \in [Nodes -> UNION {HalStates(n) : n \in Nodes}]
    /\ \A n \in Nodes : hal[n] \in HalStates(n)
    /\ owner = "mgr" => \A n \in Nodes : hal[n] = HalConstructed
    /\ radio = [n \in Nodes |-> RadioInit]
    /\ stack = [n \in Nodes |-> <<>>]
    /\ last = NoReturn
    /\ mgr \in MgrStates
    /\ owner = "hal" => mgr = MgrConstructed
    /\ lora = IF mgr.initialized THEN LoraBegun(mgr) ELSE LoraReset
    /\ store = NoConfig
    /\ order \in {"leftFirst", "rightFirst"}
    /\ owner = "hal" => order = "leftFirst"
    /\ out = NoOut
    /\ task = TaskIdle

HalNext ==
    \E n \in Nodes :
       \/ CallSend(n) \/ SendEntry(n) \/ SendTxDone(n) \/ SendAckLoop(n)
       \/ SendAckRet(n)
       \/ CallRecv(n) \/ RecvEntry(n) \/ RecvLoop(n) \/ RecvPost(n)
       \/ RecvAckSent(n)
       \/ Begin(n) \/ End(n) \/ SetNodeAddress(n) \/ SetTimeout(n)
       \/ CallIsPacketAvailable(n) \/ Inject(n)

MgrNext ==
    \/ MgrInit \/ MgrUpdate \/ MgrConfigure \/ MgrSetMessageCallback
    \/ MgrSetEnabled \/ MgrSendTextMessage \/ MgrInject

Next == HalNext \/ Advance \/ MgrNext

Spec == Init /\ [][Next]_vars

(***************************************************************************)
(* The same program with its scheduling: a call in progress that is not    *)
(* inside a delay takes its next step, and the clock moves when every call *)
(* in progress is inside a delay.                                          *)
(***************************************************************************)
Step(n) ==
    \/ SendEntry(n) \/ SendTxDone(n) \/ SendAckLoop(n) \/ SendAckRet(n)
    \/ RecvEntry(n) \/ RecvLoop(n) \/ RecvPost(n) \/ RecvAckSent(n)

LiveSpec ==
    /\ Init /\ [][Next]_vars
    /\ WF_vars(Advance)
    /\ \A n \in Nodes : WF_vars(Step(n))

(***************************************************************************)
(* The application configuring its radio: the calls that set and read the  *)
(* parameters and the mode, with begin and end, and frames arriving.       *)
(***************************************************************************)
ConfigNext ==
    \E n \in Nodes :
        \/ Begin(n) \/ End(n)
        \/ SetFrequency(n) \/ SetBandwidth(n) \/ SetSpreadingFactor(n)
        \/ SetCodingRate(n) \/ SetSyncWord(n) \/ SetTxPower(n)
        \/ SetMode(n)
        \/ CallIsPacketAvailable(n) \/ GetPacketRssi(n) \/ GetPacketSnr(n)
        \/ Inject(n)

ConfigSpec == Init /\ [][ConfigNext]_vars

(***************************************************************************)
(* The running nodes when a data packet for the sender reached its radio   *)
(* before the application's first call: the calls of sendPacket and        *)
(* receivePacket, with frames arriving.                                    *)
(***************************************************************************)
PendingInit ==
    /\ owner = "hal"
    /\ now = StartTime
    /\ calls = 0
    /\ hal = [n \in Nodes |-> HalRunning(n, 0)]
    /\ \E n \in Senders, bytes \in ForeignFrames :
         /\ Len(bytes) >= HeaderLen /\ bytes[1] = ConfiguredAddr(n)
         /\ ~HasFlag(bytes[4], LORA_FLAG_ACK)
         /\ radio = [m \in Nodes |->
                      IF m = n THEN Receive(RadioInit, bytes, NoPkt)
                      ELSE RadioInit]
    /\ stack = [n \in Nodes |-> <<>>]
    /\ last = NoReturn
    /\ mgr = MgrConstructed
    /\ lora = LoraReset
    /\ store = NoConfig
    /\ order = "leftFirst"
    /\ out = NoOut
    /\ task = TaskIdle

PendingNext ==
    \/ \E n \in Nodes :
          \/ CallSend(n) \/ SendEntry(n) \/ SendTxDone(n) \/ SendAckLoop(n)
          \/ SendAckRet(n)
          \/ CallRecv(n) \/ RecvEntry(n) \/ RecvLoop(n) \/ RecvPost(n)
          \/ RecvAckSent(n)
          \/ Inject(n)
    \/ Advance

PendingSpec == PendingInit /\ [][PendingNext]_vars

(***************************************************************************)
(* The application and the operating mode: the calls that set the mode or  *)
(* depend on it, on nodes begun or not, with frames arriving.              *)
(***************************************************************************)
ModeInit == Init /\ owner = "hal"

ModeNext ==
    \/ \E n \in Nodes :
          \/ CallSend(n) \/ SendEntry(n) \/ SendTxDone(n) \/ SendAckLoop(n)
          \/ SendAckRet(n)
          \/ CallRecv(n) \/ RecvEntry(n) \/ RecvLoop(n) \/ RecvPost(n)
          \/ RecvAckSent(n)
          \/ Begin(n) \/ End(n) \/ SetMode(n)
          \/ CallIsPacketAvailable(n) \/ Inject(n)
    \/ Advance

ModeSpec == ModeInit /\ [][ModeNext]_vars

\* the manager driven by the two tasks of main.cpp
TaskSpec == Init /\ [][TaskNext]_vars

(***************************************************************************)
(* Properties.  They read the history of the call that the step just taken *)
(* returned from: last (LoRaModule) and out (LoRaManager).                 *)
(***************************************************************************)
SendReturned == last.call.fn = "send"

RecvReturned == last.call.fn = "recv"

\* the receivePacket that returned had read a frame
RecvRead == RecvReturned /\ last.call.rxbytes # <<>>

\* a frame that carries a whole packet of the LoRaModule format
WellFormed(bytes) ==
    /\ Len(bytes) >= HeaderLen
    /\ bytes[5] <= PayloadMax
    /\ bytes[5] <= Len(bytes) - HeaderLen

\* a frame that carries a whole packet of the LoRaManager format
MgrWellFormed(bytes) ==
    /\ Len(bytes) >= MinHeader
    /\ bytes[8] <= Len(bytes) - MinHeader

\* the destination a LoRaManager frame was sent to
MgrDestOf(bytes) == bytes[4] * 256 + bytes[5]

\* C1: reliable delivery.  A RELIABLE sendPacket made by the application,
\* to whose ACK wait the radio reported, before the timeout had elapsed, the
\* matching ACK sent by the destination node, returns OK.
C1_ReliableSendReturnsOk ==
    (/\ SendReturned
     /\ last.call.depth = 0
     /\ HasFlag(last.call.pkt.flags, LORA_FLAG_RELIABLE)
     /\ last.call.ackTimely)
    => last.call.status = "OK"

C3_UnreliableSendReturnsAtOnce ==
    (/\ SendReturned
     /\ last.call.depth = 0
     /\ ~HasFlag(last.call.pkt.flags, LORA_FLAG_RELIABLE)
     /\ last.call.status = "OK")
    => /\ Len(last.call.written) = 1
       /\ last.call.polls = 0
       /\ last.call.slept = 0

\* C4: a receivePacket that returns a packet with RELIABLE set and ACK clear,
\* addressed to this node or to 0xFF, has written an ACK frame before it
\* returns: destination = the packet's source, id = the packet's id, flags
\* containing ACK, length 0.
C4_AutoAckEchoesId ==
    (/\ RecvRead
     /\ WellFormed(last.call.rxbytes)
     /\ HasFlag(last.call.pkt.flags, LORA_FLAG_RELIABLE)
     /\ ~HasFlag(last.call.pkt.flags, LORA_FLAG_ACK)
     /\ last.call.pkt.destination \in {hal[last.node].nodeAddress, BroadcastAddr})
    => /\ Len(last.call.ackFrame) = HeaderLen
       /\ last.call.ackFrame[1] = last.call.pkt.source
       /\ last.call.ackFrame[3] = last.call.pkt.id
       /\ HasFlag(last.call.ackFrame[4], LORA_FLAG_ACK)
       /\ last.call.ackFrame[5] = 0

\* C5: a packet whose destination is neither the node's address nor the
\* broadcast address is dropped: receivePacket does not return OK for it and
\* writes no ACK; update does not call the callback for it and writes no ACK.
C5_MisaddressedDropped ==
    /\ (/\ RecvRead
        /\ WellFormed(last.call.rxbytes)
        /\ last.call.rxbytes[1] \notin {hal[last.node].nodeAddress, BroadcastAddr})
       => /\ last.call.status # "OK"
          /\ last.call.ackFrame = <<>>
    /\ (/\ out.op = "update"
        /\ MgrWellFormed(out.rx)
        /\ MgrDestOf(out.rx) \notin {out.mgr.deviceId, MgrBroadcast})
       => /\ ~out.called
          /\ out.written = <<>>

\* C6: a well-formed packet sent to the broadcast address is accepted:
\* receivePacket returns OK with destination 0xFF, whatever the node's
\* address; update of an initialized, enabled manager with a callback
\* registered calls it with the packet, destination 0xFFFF.
C6_BroadcastAccepted ==
    /\ (/\ RecvRead
        /\ WellFormed(last.call.rxbytes)
        /\ last.call.rxbytes[1] = BroadcastAddr)
       => /\ last.call.status = "OK"
          /\ last.call.pkt.destination = BroadcastAddr
    /\ (/\ out.op = "update"
        /\ out.mgr.initialized
        /\ out.mgr.enabled
        /\ out.mgr.messageCallback
        /\ MgrWellFormed(out.rx)
        /\ MgrDestOf(out.rx) = MgrBroadcast)
       => /\ out.called
          /\ out.delivered.destId = MgrBroadcast
          /\ out.delivered.messageType = out.rx[1]
          /\ out.delivered.length = out.rx[8]
          /\ out.delivered.payload =
                SubSeq(out.rx, MinHeader + 1, MinHeader + out.rx[8])

\* C6 happens: a node whose address is not the default one returned a
\* broadcast packet that another node sent
C6_Witness ==
    /\ RecvRead
    /\ last.call.rxbytes[1] = BroadcastAddr
    /\ last.call.rxsent # NoPkt
    /\ last.call.status = "OK"
    /\ hal[last.node].nodeAddress # DefaultAddress

\* C7: round trip.  The packet receivePacket reads from a frame that
\* sendPacket wrote for a packet of length 0..240 has the destination,
\* source, id, flags, length and first length payload bytes of the packet
\* sendPacket wrote (source and id stamped).
C7_RoundTrip ==
    (/\ RecvRead
     /\ last.call.rxsent # NoPkt
     /\ last.call.rxsent.length <= PayloadMax)
    => LET p == last.call.rxsent
           q == last.call.pkt
       IN /\ q.destination = p.destination
          /\ q.source = p.source
          /\ q.id = p.id
          /\ q.flags = p.flags
          /\ q.length = p.length
          /\ q.payload = SubSeq(p.payload, 1, p.length)

\* C7 happens: a packet with the longest payload, id stamped, was read back
C7_Witness ==
    /\ RecvRead
    /\ last.call.rxsent # NoPkt
    /\ last.call.rxsent.length = PayloadMax
    /\ last.call.pkt.payload = last.call.rxsent.payload

\* C8: receivePacket returns ERROR for a frame of fewer than 5 bytes, or
\* whose declared length exceeds 240 or the payload bytes present; it then
\* has stored no byte outside the 240-byte array and written no ACK.
C8_MalformedRejected ==
    (/\ RecvRead
     /\ \/ Len(last.call.rxbytes) < HeaderLen
        \/ last.call.rxbytes[5] > PayloadMax
        \/ last.call.rxbytes[5] > Len(last.call.rxbytes) - HeaderLen)
    => /\ last.call.status = "ERROR"
       /\ last.call.stored <= PayloadMax
       /\ last.call.stored <= Len(last.call.rxbytes)
       /\ last.call.ackFrame = <<>>

\* C8 happens: a frame that declares more than 240 payload bytes, and
\* carries them, was rejected
C8_Witness ==
    /\ RecvRead
    /\ Len(last.call.rxbytes) > HeaderLen + PayloadMax
    /\ last.call.rxbytes[5] > PayloadMax
    /\ last.call.status = "ERROR"

\* C9: every frame sendPacket writes is the header destination, source, id,
\* flags, length followed by exactly length payload bytes, length <= 240,
\* and writing it reads nothing beyond the 240-byte payload array.
C9_FrameWithinPayloadArray ==
    (SendReturned /\ last.call.written # <<>>)
    => LET frame == last.call.written[1]
           p == last.call.pkt
       IN /\ SubSeq(frame, 1, HeaderLen) =
                <<p.destination, p.source, p.id, p.flags, p.length>>
          /\ Len(frame) = HeaderLen + frame[5]
          /\ frame[5] <= PayloadMax
          /\ ~last.call.oob

\* the arguments of configure that are illegal
IllegalConfig(a) ==
    \/ a[1] < BandLow \/ a[1] > BandHigh
    \/ a[2] \notin {7800, 10400, 15600, 20800, 31250, 41700, 62500, 125000,
                    250000, 500000}
    \/ a[3] < 6 \/ a[3] > 12
    \/ a[4] < 5 \/ a[4] > 8

\* C10: configure is all-or-nothing.  With an illegal argument it returns
\* false and leaves the cached settings, the radio's settings and the
\* stored configuration as they were; the store changes only when it
\* returns true.
C10_ConfigureAllOrNothing ==
    out.op = "configure" =>
       /\ IllegalConfig(out.args) =>
             /\ ~out.ret
             /\ Settings(mgr) = Settings(out.mgr)
             /\ lora = out.lora
             /\ store = out.store
       /\ store # out.store => out.ret

(***************************************************************************)
(* The configuration calls.                                                *)
(***************************************************************************)
\* a call of one step has just returned at a node whose radio was begun
Answered(op) == last.op = op /\ last.pre.available

IllegalCall ==
    \/ Answered("setBandwidth") /\ last.arg \notin LegalBandwidths
    \/ Answered("setSpreadingFactor") /\ last.arg \notin 6..12
    \/ Answered("setCodingRate") /\ last.arg \notin 5..8
    \/ Answered("setTxPower") /\ last.arg \notin 2..20

\* C11: on a begun LoRaModule, setBandwidth, setSpreadingFactor,
\* setCodingRate and setTxPower with a value outside the legal set or range
\* return false and leave every cached parameter, the mode and what was
\* written to the radio as they were before the call.
C11_IllegalValueRejected ==
    IllegalCall => ~last.ret /\ hal[last.node] = last.pre

C11_Witness ==
    /\ Answered("setBandwidth") /\ last.arg = 100000 /\ ~last.ret
    /\ last.pre.mode = "RECEIVE"

\* C12: on a begun LoRaModule, setBandwidth with one of the ten legal
\* bandwidths, setSpreadingFactor with 6..12 and setCodingRate with 5..8
\* return true; afterwards the cached value and the value written to the
\* radio are the argument, and every other parameter is as before.
C12_LegalValueApplied ==
    /\ Answered("setBandwidth") /\ last.arg \in LegalBandwidths
         => /\ last.ret
            /\ hal[last.node] = [last.pre EXCEPT !.bandwidth = last.arg,
                                                 !.live.bandwidth = last.arg]
    /\ Answered("setSpreadingFactor") /\ last.arg \in 6..12
         => /\ last.ret
            /\ hal[last.node] =
                 [last.pre EXCEPT !.spreadingFactor = last.arg,
                                  !.live.spreadingFactor = last.arg]
    /\ Answered("setCodingRate") /\ last.arg \in 5..8
         => /\ last.ret
            /\ hal[last.node] = [last.pre EXCEPT !.codingRate = last.arg,
                                                 !.live.codingRate = last.arg]

C12_Witness ==
    /\ Answered("setBandwidth") /\ last.arg = 31250 /\ last.ret
    /\ last.pre.bandwidth = TDECK_LORA_BANDWIDTH
    /\ hal[last.node].live.bandwidth = 31250

\* C14: setMode(CAD) returns false and leaves the mode what it was before
\* the call, and the mode of every node is at all times one of STANDBY,
\* SLEEP, TRANSMIT and RECEIVE, never CAD.
C14_CadRefused ==
    /\ last.op = "setMode" /\ last.arg = "CAD"
         => ~last.ret /\ hal[last.node] = last.pre
    /\ \A n \in Nodes :
         hal[n].mode \in {"STANDBY", "SLEEP", "TRANSMIT", "RECEIVE"}

C14_Witness ==
    /\ last.op = "setMode" /\ last.arg = "CAD"
    /\ last.pre.available /\ last.pre.mode = "TRANSMIT"
    /\ hal[last.node].mode = "TRANSMIT"

\* C15: on a begun LoRaModule, isPacketAvailable called in a mode other
\* than RECEIVE switches the radio to RECEIVE before asking it, so the mode
\* is RECEIVE when it returns; getPacketRssi and getPacketSnr answer in the
\* mode they are called in and change nothing.
C15_OnlyAvailabilityCheckListens ==
    /\ Answered("isPacketAvailable")
         => /\ hal[last.node].mode = "RECEIVE"
            /\ last.pre.mode # "RECEIVE" => hal[last.node].live.op = "receive"
    /\ Answered("getPacketRssi") \/ Answered("getPacketSnr")
         => hal[last.node] = last.pre

C15_Witness ==
    /\ Answered("isPacketAvailable") /\ last.pre.mode = "STANDBY"
    /\ hal[last.node].mode = "RECEIVE"

\* C15 as stated: after any of the three calls the mode is RECEIVE
C15_ReadersSwitchToReceive ==
    /\ \/ Answered("isPacketAvailable")
       \/ Answered("getPacketRssi")
       \/ Answered("getPacketSnr")
    /\ last.pre.mode # "RECEIVE"
    => hal[last.node].mode = "RECEIVE"

(***************************************************************************)
(* LoRaManager: loading the configuration.                                 *)
(***************************************************************************)
\* C13: when the configuration does not load, init's loadConfig leaves the
\* manager with the compiled-in frequency, bandwidth, spreading factor,
\* coding rate and sync word, whatever it held before, and the store holds
\* those defaults when the call returns.
C13_LoadFailureFallsBack ==
    out.op = "init" /\ ~out.store.present
        => /\ Settings(mgr) = Settings(MgrConstructed)
           /\ store.present
           /\ Settings(store) = Settings(MgrConstructed)

(***************************************************************************)
(* A radio that did not begin.                                             *)
(***************************************************************************)
\* C16: while the radio of a LoRaModule is not begun, every setter, setMode
\* and isPacketAvailable return false and change nothing, and sendPacket and
\* receivePacket return ERROR and write no frame; after init of the
\* LoRaManager has returned false, and until it returns true, its sends
\* return false, update dispatches nothing and no frame is written.
C16_FailedInitDisables ==
    /\ last.op # "none" /\ ~last.pre.available
         => ~last.ret /\ hal[last.node] = last.pre
    /\ (SendReturned \/ RecvReturned) /\ ~hal[last.node].available
         => last.call.status = "ERROR" /\ last.call.written = <<>>
    /\ out.initFailed /\ out.op \in {"sendTextMessage", "update"}
         => ~out.ret /\ ~out.called /\ out.written = <<>>

(***************************************************************************)
(* LoRaModule: what a sendPacket transmits.                                *)
(***************************************************************************)
\* C17: a sendPacket whose transmission the radio reported as failed
\* (endPacket false) returns ERROR, having written its frame once and never
\* asked the radio for a packet; the mode is still TRANSMIT, not RECEIVE,
\* when it returns, with the RELIABLE flag set or clear.
C17_TxFailureReturnsError ==
    SendReturned /\ last.call.written # <<>> /\ ~last.call.success
        => /\ last.call.status = "ERROR"
           /\ Len(last.call.written) = 1
           /\ last.call.polls = 0
           /\ last.call.startTime = NoFrame.startTime
           /\ hal[last.node].mode = "TRANSMIT"

C17_Witness ==
    /\ SendReturned /\ last.call.depth = 0
    /\ last.call.written # <<>> /\ ~last.call.success
    /\ HasFlag(last.call.pkt.flags, LORA_FLAG_RELIABLE)
    /\ last.call.status = "ERROR"

\* the frame bytes carry the header of pkt
Carries(bytes, pkt) ==
    /\ Len(bytes) >= HeaderLen
    /\ bytes[1] = pkt.destination /\ bytes[2] = pkt.source
    /\ bytes[3] = pkt.id /\ bytes[4] = pkt.flags /\ bytes[5] = pkt.length

\* what C18 says of the frames of the sends a call makes on its own: each
\* is an ACK, of length 0
OnlyAcksBeside ==
    SendReturned /\ last.call.depth > 0
        => /\ HasFlag(last.call.pkt.flags, LORA_FLAG_ACK)
           /\ last.call.pkt.length = 0

\* C18: a sendPacket on a begun radio writes the frame of the caller's
\* packet exactly once, whether it returns OK, NO_ACK or ERROR; on a radio
\* that is not begun it returns ERROR and writes nothing.  The only other
\* frames written during a call are the ACKs of the receivePacket calls of
\* its ACK wait.
C18_OneTransmissionWhenBegun ==
    /\ SendReturned =>
          IF hal[last.node].available
          THEN /\ Len(last.call.written) = 1
               /\ Carries(last.call.written[1], last.call.pkt)
          ELSE last.call.written = <<>> /\ last.call.status = "ERROR"
    /\ OnlyAcksBeside

C18_Witness ==
    /\ SendReturned /\ last.call.depth = 0
    /\ last.call.status = "NO_ACK" /\ last.call.polls > 0
    /\ Len(last.call.written) = 1

\* C18 as stated: every call writes the caller's frame exactly once
C18_OneTransmissionAlways ==
    /\ SendReturned => /\ Len(last.call.written) = 1
                       /\ Carries(last.call.written[1], last.call.pkt)
    /\ OnlyAcksBeside

(***************************************************************************)
(* LoRaModule: sendPacket returns.                                         *)
(***************************************************************************)
\* node n is inside a sendPacket of its application with RELIABLE set
InReliableSend(n) ==
    /\ stack[n] # <<>>
    /\ LET f == stack[n][Len(stack[n])]
       IN f.fn = "send" /\ HasFlag(f.pkt.flags, LORA_FLAG_RELIABLE)

\* a RELIABLE sendPacket returns OK only after a matching ACK was reported
\* to it, NO_ACK only once the timeout has passed, ERROR only when the
\* radio was not begun or the transmission failed, and nothing else
ReliableOutcome ==
    SendReturned /\ HasFlag(last.call.pkt.flags, LORA_FLAG_RELIABLE)
        => \/ last.call.status = "OK" /\ last.call.ackPolled
           \/ /\ last.call.status = "NO_ACK"
              /\ Elapsed(last.call.retAt, last.call.startTime) >= last.call.eff
           \/ /\ last.call.status = "ERROR"
              /\ ~hal[last.node].available \/ ~last.call.success

C20_AcksNotAcknowledged ==
    /\ /\ RecvReturned
       /\ Len(last.call.rxbytes) >= HeaderLen
       /\ HasFlag(last.call.rxbytes[4], LORA_FLAG_ACK)
       => last.call.ackFrame = <<>>
    /\ /\ out.op = "update"
       /\ Len(out.rx) >= 1
       /\ out.rx[1] = LORA_MSG_ACK
       => out.written = <<>>

C20_Witness ==
    /\ RecvReturned /\ last.call.status = "OK"
    /\ last.call.pkt.destination = hal[last.node].nodeAddress
    /\ last.call.pkt.flags = LORA_FLAG_ACK + LORA_FLAG_RELIABLE
    /\ last.call.ackFrame = <<>>


(***************************************************************************)
(* LoRaManager: the text message sent.                                     *)
(***************************************************************************)
\* C21: the frame sendTextMessage writes has a length field equal to the
\* number of payload bytes that follow it, which is the length of the text
\* capped at the maximum payload size and at most 240, and the payload is
\* the first bytes of the text.
C21_TextLengthCapped ==
    out.op = "sendTextMessage" /\ out.written # <<>>
        => LET bytes == out.written[1]
               len == out.args[1]
           IN /\ bytes[8] = Len(bytes) - MinHeader
              /\ bytes[8] = Min(len, 240)
              /\ \A i \in 1..bytes[8] : bytes[MinHeader + i] = U8(Seed + i)


(***************************************************************************)
(* LoRaManager: the packets update drops.                                  *)
(***************************************************************************)
\* the frame update read is shorter than the header, declares more payload
\* than it carries, or is addressed to another device
DroppedFrame(bytes) ==
    \/ ~MgrWellFormed(bytes)
    \/ MgrDestOf(bytes) \notin {out.mgr.deviceId, MgrBroadcast}

\* C22: an update that read a misaddressed or malformed frame has no effect:
\* the callback is not called, no frame is written, the packet counter and
\* the recorded RSSI and SNR are what they were before the call.
C22_DroppedWithoutEffect ==
    out.op = "update" /\ out.rx # <<>> /\ DroppedFrame(out.rx)
        => /\ ~out.called
           /\ out.written = <<>>
           /\ mgr = out.mgr


(***************************************************************************)
(* The tasks of main.cpp and the radio.                                    *)
(***************************************************************************)
\* task t is between the read of the packet counter and the end of its frame
InRadioOperation(t) == task[t].pc # "idle"

\* the packet id a frame of LoRaManager carries
MgrIdOf(bytes) == bytes[6] * 256 + bytes[7]

\* C23: the radio is driven by one execution context.  No step of update
\* falls between the steps of a send of the messenger application: the two
\* tasks are never inside a radio operation of LoRaManager at once, every
\* frame put on air is the whole frame of one packet, and no two frames
\* carry the same packet id (the counter is not incremented concurrently).
C23_SingleContext ==
    /\ ~(InRadioOperation("ui") /\ InRadioOperation("sys"))
    /\ \A i \in 1..Len(task.air) : MgrWellFormed(task.air[i])
                                    /\ Len(task.air[i]) = MinHeader + task.air[i][8]
    /\ \A i, j \in 1..Len(task.air) :
         i # j => MgrIdOf(task.air[i]) # MgrIdOf(task.air[j])


(***************************************************************************)
(* LoRaModule: the packet ids.                                             *)
(***************************************************************************)
\* node n is at the first step of a sendPacket whose packet has no id
AssigningId(n) ==
    /\ stack[n] # <<>>
    /\ Head(stack[n]).fn = "send" /\ Head(stack[n]).pc = "entry"
    /\ Head(stack[n]).pkt.id = 0

\* the packet of the sendPacket of node n after that step
StampedPacket(n) ==
    IF Len(stack'[n]) = Len(stack[n]) THEN Head(stack'[n]).pkt
    ELSE last'.call.pkt

\* C24: the packet id counter of a node is 8 bits wide and changes only when
\* a sendPacket assigns an id: the id assigned is the counter plus one modulo
\* 256 (0 after 255) and becomes the counter, so each assigned id is the one
\* assigned before plus one; a sendPacket on a radio that is not available
\* leaves the counter alone.
C24_IdsCountModulo256 ==
    [][\A n \in Nodes :
         /\ hal'[n].packetId \in 0..255
         /\ IF AssigningId(n) /\ hal[n].available /\ stack'[n] # stack[n]
            THEN /\ hal'[n].packetId = (hal[n].packetId + 1) % 256
                 /\ StampedPacket(n).id = hal'[n].packetId
            ELSE hal'[n].packetId = hal[n].packetId]_vars

C24_Witness ==
    /\ SendReturned /\ last.call.depth = 0 /\ last.call.written # <<>>
    /\ last.call.pkt.id = 0
    /\ hal[last.node].packetId = 0
    /\ last.call.written[1][3] = 0


(***************************************************************************)
(* LoRaModule: the wait after a transmission.                              *)
(***************************************************************************)
\* the documented airtime of a payload of len bytes plus the 50 ms margin:
\* symbolDuration * (8 + 4.25 + 8 + ceil(len * 8 / (4 * SF))) + 50, with
\* symbolDuration = 1000 * 2^SF / (bandwidth / 1000)
DocumentedWait(sf, bw, len) ==
    LET symbolDuration == (1000 * Pow2(sf) * 1000) \div bw
        payloadSymbols == 8 + (len * 8 + 4 * sf - 1) \div (4 * sf)
    IN symbolDuration * 8 + (symbolDuration * 17) \div 4
       + symbolDuration * payloadSymbols + 50

\* C25: the time a sendPacket waits after its transmission is the documented
\* airtime formula for the spreading factor and the bandwidth of the radio
\* and the length of the payload just sent, plus 50.
C25_WaitIsAirtimeOfPayload ==
    (/\ SendReturned /\ last.call.depth = 0
     /\ last.call.written # <<>>
     /\ ~HasFlag(last.call.pkt.flags, LORA_FLAG_RELIABLE))
    => last.call.slept =
         DocumentedWait(hal[last.node].spreadingFactor,
                        hal[last.node].bandwidth, last.call.pkt.length)


\* an activation of sendPacket that is in its wait for an ACK (lines 363-385)
AckWaiting(f) == f.fn = "send" /\ f.pc \in {"ackLoop", "ackDelay", "ackRet"}

\* C26: at most one ACK wait is active per node.  The calls in progress on a
\* node nest at most as sendPacket -> receivePacket -> sendPacket; every
\* sendPacket that was called by receivePacket sends a packet without the
\* RELIABLE flag and is never in an ACK wait, so at most one activation of a
\* node, the outermost, waits for an ACK.
C26_OneAckWait ==
    \A n \in Nodes :
        LET stk == stack[n]
        IN /\ Len(stk) <= 3
           /\ Cardinality({i \in 1..Len(stk) : AckWaiting(stk[i])}) <= 1
           /\ \A i \in 1..Len(stk) :
                /\ stk[i].depth = Len(stk) - i
                /\ stk[i].depth > 0 /\ stk[i].fn = "send" =>
                      /\ ~HasFlag(stk[i].pkt.flags, LORA_FLAG_RELIABLE)
                      /\ ~AckWaiting(stk[i])
                      /\ stk[i + 1].fn = "recv"
                /\ stk[i].depth > 0 /\ stk[i].fn = "recv" =>
                      /\ stk[i].depth = 1
                      /\ AckWaiting(stk[i + 1])

\* a sendPacket waiting for its ACK whose receivePacket has sent an ACK of
\* its own, which is past its transmission
C26_Witness ==
    \E n \in Nodes :
        /\ Len(stack[n]) = 3
        /\ AckWaiting(stack[n][3])
        /\ stack[n][1].fn = "send" /\ stack[n][1].pc = "txWait"
        /\ Woken(stack[n][1])


\* C27: acknowledged implies delivered.  A receivePacket whose ACK for the
\* RELIABLE data packet it read has been transmitted is a call of the
\* application, which gets the packet with OK; it is not the receivePacket of
\* a sendPacket's ACK wait, which drops every packet that is not its ACK.
C27_AcknowledgedIsDelivered ==
    \A n \in Nodes :
        /\ stack[n] # <<>>
        /\ Head(stack[n]).fn = "recv"
        /\ Head(stack[n]).pc = "ackSent"
        /\ Head(stack[n]).cret = "OK"
        /\ NeedsAck(Head(stack[n]).pkt.flags)
        => Head(stack[n]).depth = 0


\* C28: a packet that becomes available while receivePacket waits is
\* returned by that call.  The wait loop ends before its timeout only when a
\* poll reported a packet (lines 407-412), so a call that returns TIMEOUT
\* has waited its whole effective timeout.
C28_TimeoutOnlyAfterWholeWait ==
    /\ last.call.fn = "recv"
    /\ last.call.status = "TIMEOUT"
    => Elapsed(last.call.retAt, last.call.startTime) >= last.call.eff


\* C29: a RELIABLE packet sent to the broadcast address never completes with
\* OK, no node having the address 0xFF: the sendPacket that transmitted it
\* returns NO_ACK, once its whole effective timeout has passed (a sendPacket
\* whose transmission failed returns ERROR).
C29_ReliableBroadcastNeverOk ==
    /\ last.call.fn = "send"
    /\ HasFlag(last.call.pkt.flags, LORA_FLAG_RELIABLE)
    /\ last.call.pkt.destination = BroadcastAddr
    => /\ last.call.status # "OK"
       /\ last.call.written # <<>> /\ last.call.success =>
             /\ last.call.status = "NO_ACK"
             /\ Elapsed(last.call.retAt, last.call.startTime) >= last.call.eff

\* the sender of a RELIABLE broadcast has read, in its ACK wait, the ACK of
\* a receiver for that packet, and waits on
C29_Witness ==
    \E n \in Nodes :
        /\ stack[n] # <<>>
        /\ Head(stack[n]).fn = "send" /\ Head(stack[n]).pc = "ackDelay"
        /\ Head(stack[n]).pkt.destination = BroadcastAddr
        /\ Head(stack[n]).cret = "OK"
        /\ HasFlag(Head(stack[n]).cpkt.flags, LORA_FLAG_ACK)
        /\ Head(stack[n]).cpkt.id = Head(stack[n]).pkt.id
        /\ Head(stack[n]).cpkt.destination = hal[n].nodeAddress
        /\ \E m \in Nodes \ {n} : Head(stack[n]).cpkt.source = hal[m].nodeAddress


\* the step is sendPacket's beginPacket .. endPacket on node n (lines 327-341)
WritesFrame(n) ==
    /\ stack[n] # <<>> /\ stack'[n] # <<>>
    /\ Head(stack[n]).fn = "send" /\ Head(stack[n]).pc = "entry"
    /\ Head(stack'[n]).pc = "txWait"

\* the step has LoRa.parsePacket report a frame to node n, whose bytes
\* receivePacket reads in the same step, or is a whole isPacketAvailable
PollsRadio(n) ==
    /\ hal[n].available
    /\ \/ Len(radio'[n].rxq) < Len(radio[n].rxq)
       \/ last'.op = "isPacketAvailable" /\ last'.node = n

\* C30: the tracked mode agrees with the operation.  In every step of an
\* available radio the mode is TRANSMIT when the step writes and transmits
\* a frame and RECEIVE when it polls the radio for a packet or reads one; a
\* radio that becomes available (a successful begin) is in RECEIVE; and no
\* step changes the mode of a radio that is and stays unavailable.
C30_ModeMatchesOperation ==
    [][\A n \in Nodes :
         /\ WritesFrame(n) => hal'[n].mode = "TRANSMIT"
         /\ PollsRadio(n) => hal'[n].mode = "RECEIVE"
         /\ ~hal[n].available /\ hal'[n].available => hal'[n].mode = "RECEIVE"
         /\ ~hal[n].available /\ ~hal'[n].available =>
               hal'[n].mode = hal[n].mode]_vars

\* isPacketAvailable has been called on a radio left in TRANSMIT by a send,
\* or put to sleep by the application, and the radio is in RECEIVE
C30_Witness ==
    /\ last.op = "isPacketAvailable"
    /\ last.pre.available
    /\ last.pre.mode \in {"TRANSMIT", "SLEEP"}
    /\ hal[last.node].mode = "RECEIVE"

================================================================
